---------------------------- MODULE Spec2Model ----------------------------
(***************************************************************************)
(* Model of deepod/utils/data.py: the synthetic outlier-data generator.     *)
(*                                                                          *)
(*   _generate_data  (the Sampler)   lines 15-72                            *)
(*   generate_data   (the Generator) lines 75-169                           *)
(*                                                                          *)
(* Conventions.                                                             *)
(*  - A real number v is the integer v * Unit (fixed point); an array       *)
(*    element is <<"num", v * Unit>>, <<"nan", 0>> or <<"inf", 0>>.         *)
(*  - A 2-D array is a sequence of rows, a 1-D array a sequence of          *)
(*    elements; np.r_ of two arrays is \o.                                  *)
(*  - contamination is the exact rational num/den.                          *)
(*  - A numpy RandomState is a finite-state generator: its state is a       *)
(*    number in 0..RngMod-1, one draw steps it once and returns the new     *)
(*    state as the raw value.  The singleton behind np.random is the        *)
(*    variable np_random; the object check_random_state builds from an      *)
(*    integer seed is the variable rs_state.                                *)
(*    A draw is one value handed to the caller, whatever number of words    *)
(*    the generator spends on it.                                           *)
(*  - numpy raises ValueError for a negative dimension (randn, uniform)     *)
(*    and for randint over an empty range.  np.NaN and np.infty are the     *)
(*    float constants of numpy 1.x.                                         *)
(*  - n * contamination is taken exactly; int() truncates toward zero.      *)
(***************************************************************************)
EXTENDS Integers, Sequences

VARIABLES
    pc,            \* position in generate_data: "idle", "L149", "L152", "L159", "L169", "returned", "raised"
    args,          \* the arguments of the call in progress
    random_state,  \* which object the local name random_state is bound to
    rs_state,      \* state of the RandomState built from an integer seed
    np_random,     \* state of the process-wide singleton used for random_state=None
    offset_,       \* local offset_ (line 149)
    coef_,         \* local coef_ (line 150), fixed point
    X_train, y_train, X_test, y_test,
    result,        \* what the call handed to its caller
    draws,         \* the draws made on the random source by this call, in order
    calls,         \* the _generate_data invocations of this call, in order
    saved          \* an earlier finished call kept by the caller (arguments and result)

vars == <<pc, args, random_state, rs_state, np_random, offset_, coef_,
          X_train, y_train, X_test, y_test, result, draws, calls, saved>>

-----------------------------------------------------------------------------
(* Bounds of the model *)

MaxN == 2
MaxF == 2
MaxDen == 4
MaxOffset == 2
MaxSeed == 0
MaxSpecial == 1
RngMod == 6
MaxWideN == 6
MaxWideDen == 4

(* Program constants *)

\* the 0.001 added to the coefficient draw is 1/Milli
Milli == 1000

Unit == RngMod * Milli

\* random_state=None
None == -1

-----------------------------------------------------------------------------
(* numpy values and arrays *)

Real(v) == <<"num", v * Unit>>
Fixed(u) == <<"num", u>>
NaN == <<"nan", 0>>
Infty == <<"inf", 0>>

\* np.full(shape, v)
Full1(n, v) == [i \in 1..n |-> v]
Full2(n, m, v) == [i \in 1..n |-> [j \in 1..m |-> v]]

\* np.zeros((n,)), np.ones((n,)); line 62 is reached with n >= 0 only, lines 57-59 raise first
np_zeros(n) == Full1(n, Real(0))
np_ones(n) == Full1(n, Real(1))

\* int(x) of the rational num/den, den > 0: truncation toward zero
int(num, den) == IF num >= 0 THEN num \div den ELSE -((-num) \div den)

-----------------------------------------------------------------------------
(* The random source *)

\* one step of the generator
Step(st) == (st + 1) % RngMod

\* RandomState(seed): the state an integer seed puts the generator in
Seeded(seed) == (3 * seed + 2) % RngMod

RECURSIVE Stream(_, _)
\* the k raw values drawn from state st, in order
Stream(st, k) == IF k <= 0 THEN <<>> ELSE <<Step(st)>> \o Stream(Step(st), k - 1)

RECURSIVE Advance(_, _)
\* the state after k draws from st
Advance(st, k) == IF k <= 0 THEN st ELSE Advance(Step(st), k - 1)

\* a C-order reshape of a flat sequence to d0 rows of d1 columns
Reshape(flat, d0, d1) == [i \in 1..d0 |-> [j \in 1..d1 |-> flat[(i - 1) * d1 + j]]]

\* the standard-normal value a raw value stands for (a signed integer)
StdNormal(raw) == raw - (RngMod \div 2)

\* random_state.randn(d0, d1)
randn(st, d0, d1) ==
    IF d0 < 0 \/ d1 < 0
    THEN [ok |-> FALSE, arr |-> <<>>, st |-> st, n |-> 0]
    ELSE [ok |-> TRUE,
          arr |-> Reshape([i \in 1..(d0 * d1) |-> StdNormal(Stream(st, d0 * d1)[i])], d0, d1),
          st |-> Advance(st, d0 * d1),
          n |-> d0 * d1]

\* random_state.uniform(low, high, size=(d0, d1)): low + (high - low) * u, u = raw / RngMod
uniform(st, low, high, d0, d1) ==
    IF d0 < 0 \/ d1 < 0
    THEN [ok |-> FALSE, arr |-> <<>>, st |-> st, n |-> 0]
    ELSE [ok |-> TRUE,
          arr |-> Reshape([i \in 1..(d0 * d1) |->
                              Fixed(low * Unit + (high - low) * Milli * Stream(st, d0 * d1)[i])],
                          d0, d1),
          st |-> Advance(st, d0 * d1),
          n |-> d0 * d1]

\* random_state.randint(low): an integer of [0, low); an empty range is a ValueError
randint(st, low) ==
    IF low <= 0
    THEN [ok |-> FALSE, val |-> 0, st |-> st]
    ELSE [ok |-> TRUE, val |-> Step(st) % low, st |-> Step(st)]

\* random_state.random_sample(): a real of [0, 1), fixed point
random_sample(st) == [val |-> Step(st) * Milli, st |-> Step(st)]

-----------------------------------------------------------------------------
(* The Sampler *)

\* inliers = coef * randn(n_inliers, n_features) + offset  (line 57)
Inliers(g, coef, offset) ==
    [i \in 1..Len(g) |-> [j \in 1..Len(g[i]) |-> Fixed(coef * g[i][j] + offset * Unit)]]

\* lines 64-66 with line 66 left out: the NaN rows reach X and not y
WithNaN_XOnly(X, y, n_features, n_nan) ==
    IF n_nan > 0
    THEN [X |-> X \o Full2(n_nan, n_features, NaN), y |-> y]
    ELSE [X |-> X, y |-> y]

\* lines 64-66
WithNaN(X, y, n_features, n_nan) ==
    IF n_nan > 0
    THEN [X |-> X \o Full2(n_nan, n_features, NaN), y |-> y \o Full1(n_nan, NaN)]
    ELSE [X |-> X, y |-> y]

\* lines 68-70
WithInf(X, y, n_features, n_inf) ==
    IF n_inf > 0
    THEN [X |-> X \o Full2(n_inf, n_features, Infty), y |-> y \o Full1(n_inf, Infty)]
    ELSE [X |-> X, y |-> y]

\* lines 57-59 in the other order: the outliers drawn before the inliers
_generate_data_outliers_first(n_inliers, n_outliers, n_features, coef, offset, st, n_nan, n_inf) ==
    LET u == uniform(st, -offset, offset, n_outliers, n_features)
        g == randn(u.st, n_inliers, n_features)
    IN  IF ~u.ok
        THEN [ok |-> FALSE, site |-> "uniform", X |-> <<>>, y |-> <<>>, st |-> st, log |-> <<>>]
        ELSE IF ~g.ok
        THEN [ok |-> FALSE, site |-> "randn", X |-> <<>>, y |-> <<>>, st |-> u.st,
              log |-> << <<"uniform", u.n>> >>]
        ELSE LET X0 == Inliers(g.arr, coef, offset) \o u.arr
                 y0 == np_zeros(n_inliers) \o np_ones(n_outliers)
                 a == WithNaN(X0, y0, n_features, n_nan)
                 b == WithInf(a.X, a.y, n_features, n_inf)
             IN  [ok |-> TRUE, site |-> "", X |-> b.X, y |-> b.y, st |-> g.st,
                  log |-> << <<"uniform", u.n>>, <<"randn", g.n>> >>]

\* _generate_data: the outcome, the arrays, the state the source is left in and the draws made
_generate_data(n_inliers, n_outliers, n_features, coef, offset, st, n_nan, n_inf) ==
    LET g == randn(st, n_inliers, n_features)
        u == uniform(g.st, -offset, offset, n_outliers, n_features)
    IN  IF ~g.ok
        THEN [ok |-> FALSE, site |-> "randn", X |-> <<>>, y |-> <<>>, st |-> st, log |-> <<>>]
        ELSE IF ~u.ok
        THEN [ok |-> FALSE, site |-> "uniform", X |-> <<>>, y |-> <<>>, st |-> g.st,
              log |-> << <<"randn", g.n>> >>]
        ELSE LET X0 == Inliers(g.arr, coef, offset) \o u.arr
                 y0 == np_zeros(n_inliers) \o np_ones(n_outliers)
                 a == WithNaN(X0, y0, n_features, n_nan)
                 b == WithInf(a.X, a.y, n_features, n_inf)
             IN  [ok |-> TRUE, site |-> "", X |-> b.X, y |-> b.y, st |-> u.st,
                  log |-> << <<"randn", g.n>>, <<"uniform", u.n>> >>]

-----------------------------------------------------------------------------
(* The Generator *)

Empty == <<>>
NoResult == [tag |-> "none", site |-> "", val |-> <<>>]
NoArgs == [n_train |-> 0, n_test |-> 0, n_features |-> 0, contamination |-> [num |-> 0, den |-> 1],
           train_only |-> FALSE, offset |-> 0, random_state |-> None, n_nan |-> 0, n_inf |-> 0]
NoSaved == [set |-> FALSE, args |-> NoArgs, result |-> NoResult]

\* line 148 with the seed ignored: every call draws from the np.random singleton
check_random_state_global(seed) == "np.random"

\* check_random_state (line 148): None is the np.random singleton, an integer builds a new RandomState
check_random_state(seed) == IF seed = None THEN "np.random" ELSE "RandomState"

\* the state of the object the call draws from
RngState == IF random_state = "np.random" THEN np_random ELSE rs_state

\* the source after a step leaves it in state st
RngSet(st) ==
    /\ np_random' = IF random_state = "np.random" THEN st ELSE np_random
    /\ rs_state' = IF random_state = "np.random" THEN rs_state ELSE st

\* line 152 with the product rounded up instead of truncated
n_outliers_ceil(n, contamination) ==
    -int(-(n * contamination.num) - (contamination.den - 1), contamination.den)

\* int(n * contamination), line 152 and line 162
n_outliers(n, contamination) == int(n * contamination.num, contamination.den)

\* line 153 with the subtraction the wrong way round
n_inliers_swapped(n, contamination) == n_outliers(n, contamination) - n

\* line 153 with a negative difference clamped to zero
n_inliers_clamped(n, contamination) ==
    IF n - n_outliers(n, contamination) < 0 THEN 0 ELSE n - n_outliers(n, contamination)

\* int(n - n_outliers), line 153 and line 163
n_inliers(n, contamination) == n - n_outliers(n, contamination)

\* line 166 with the source built again from the seed before the test call
TestRngState_reseeded ==
    IF random_state = "np.random" THEN np_random ELSE Seeded(args.random_state)

\* what the second _generate_data call is given (lines 165-167)
TestCoef == coef_
TestOffset == offset_
TestRngState == RngState

Raise(site) ==
    /\ pc' = "raised"
    /\ result' = [tag |-> "ValueError", site |-> site, val |-> <<>>]

\* the record of one _generate_data invocation
Invocation(ni, no, coef, offset, st, r) ==
    [n_inliers |-> ni, n_outliers |-> no, n_features |-> args.n_features, coef |-> coef,
     offset |-> offset, rng |-> random_state, st_in |-> st, st_out |-> r.st,
     n_nan |-> args.n_nan, n_inf |-> args.n_inf, ok |-> r.ok]

\* generate_data is entered (lines 75-77, 148)
Call(a) ==
    /\ pc = "idle"
    /\ pc' = "L149"
    /\ args' = a
    /\ random_state' = check_random_state(a.random_state)
    /\ rs_state' = IF a.random_state = None THEN 0 ELSE Seeded(a.random_state)
    /\ offset_' = 0
    /\ coef_' = 0
    /\ X_train' = Empty /\ y_train' = Empty /\ X_test' = Empty /\ y_test' = Empty
    /\ result' = NoResult
    /\ draws' = <<>>
    /\ calls' = <<>>
    /\ UNCHANGED <<np_random, saved>>

\* lines 149-150
DeriveParams ==
    /\ pc = "L149"
    /\ LET o == randint(RngState, args.offset)
           c == random_sample(o.st)
       IN  IF ~o.ok
           THEN /\ Raise("randint")
                /\ UNCHANGED <<offset_, coef_, draws, np_random, rs_state>>
           ELSE /\ offset_' = o.val
                /\ coef_' = c.val + RngMod
                /\ draws' = << <<"randint", 1>>, <<"random_sample", 1>> >>
                /\ RngSet(c.st)
                /\ pc' = "L152"
                /\ UNCHANGED result
    /\ UNCHANGED <<args, random_state, X_train, y_train, X_test, y_test, calls, saved>>

\* lines 152-157
SampleTrain ==
    /\ pc = "L152"
    /\ LET no == n_outliers(args.n_train, args.contamination)
           ni == n_inliers(args.n_train, args.contamination)
           r == _generate_data(ni, no, args.n_features, coef_, offset_, RngState,
                               args.n_nan, args.n_inf)
       IN  /\ calls' = Append(calls, Invocation(ni, no, coef_, offset_, RngState, r))
           /\ draws' = draws \o r.log
           /\ RngSet(r.st)
           /\ IF r.ok
              THEN /\ X_train' = r.X
                   /\ y_train' = r.y
                   /\ pc' = "L159"
                   /\ UNCHANGED result
              ELSE /\ Raise(r.site)
                   /\ UNCHANGED <<X_train, y_train>>
    /\ UNCHANGED <<args, random_state, offset_, coef_, X_test, y_test, saved>>

\* lines 159-160
ReturnTrainOnly ==
    /\ pc = "L159"
    /\ args.train_only
    /\ pc' = "returned"
    /\ result' = [tag |-> "tuple", site |-> "", val |-> <<X_train, y_train>>]
    /\ UNCHANGED <<args, random_state, rs_state, np_random, offset_, coef_,
                   X_train, y_train, X_test, y_test, draws, calls, saved>>

\* lines 159, 162-167
SampleTest ==
    /\ pc = "L159"
    /\ ~args.train_only
    /\ LET no == n_outliers(args.n_test, args.contamination)
           ni == n_inliers(args.n_test, args.contamination)
           r == _generate_data(ni, no, args.n_features, TestCoef, TestOffset, TestRngState,
                               args.n_nan, args.n_inf)
       IN  /\ calls' = Append(calls, Invocation(ni, no, TestCoef, TestOffset, TestRngState, r))
           /\ draws' = draws \o r.log
           /\ RngSet(r.st)
           /\ IF r.ok
              THEN /\ X_test' = r.X
                   /\ y_test' = r.y
                   /\ pc' = "L169"
                   /\ UNCHANGED result
              ELSE /\ Raise(r.site)
                   /\ UNCHANGED <<X_test, y_test>>
    /\ UNCHANGED <<args, random_state, offset_, coef_, X_train, y_train, saved>>

\* line 169 with the partitions in the wrong places
ReturnAll_swapped ==
    /\ pc = "L169"
    /\ pc' = "returned"
    /\ result' = [tag |-> "tuple", site |-> "", val |-> <<X_test, X_train, y_test, y_train>>]
    /\ UNCHANGED <<args, random_state, rs_state, np_random, offset_, coef_,
                   X_train, y_train, X_test, y_test, draws, calls, saved>>

\* line 169
ReturnAll ==
    /\ pc = "L169"
    /\ pc' = "returned"
    /\ result' = [tag |-> "tuple", site |-> "", val |-> <<X_train, X_test, y_train, y_test>>]
    /\ UNCHANGED <<args, random_state, rs_state, np_random, offset_, coef_,
                   X_train, y_train, X_test, y_test, draws, calls, saved>>

\* the caller has the outcome; the call's frame is gone
Finish ==
    /\ pc \in {"returned", "raised"}
    /\ pc' = "idle"
    /\ args' = NoArgs
    /\ random_state' = "np.random"
    /\ rs_state' = 0
    /\ offset_' = 0
    /\ coef_' = 0
    /\ X_train' = Empty /\ y_train' = Empty /\ X_test' = Empty /\ y_test' = Empty
    /\ result' = NoResult
    /\ draws' = <<>>
    /\ calls' = <<>>
    /\ UNCHANGED <<np_random, saved>>

\* the caller keeps the arguments and the outcome of a seeded call, then goes on as in Finish
Keep ==
    /\ pc \in {"returned", "raised"}
    /\ args.random_state # None
    /\ saved' = [set |-> TRUE, args |-> args, result |-> result]
    /\ pc' = "idle"
    /\ args' = NoArgs
    /\ random_state' = "np.random"
    /\ rs_state' = 0
    /\ offset_' = 0
    /\ coef_' = 0
    /\ X_train' = Empty /\ y_train' = Empty /\ X_test' = Empty /\ y_test' = Empty
    /\ result' = NoResult
    /\ draws' = <<>>
    /\ calls' = <<>>
    /\ UNCHANGED np_random

-----------------------------------------------------------------------------
(* Callers *)

Rationals(lo, hi, dens) == {[num |-> k, den |-> d] : k \in lo..hi, d \in dens}

\* calls inside the documented domain, with contamination anywhere in [0, 1]
ValidArgs ==
    {a \in [n_train : 0..MaxN, n_test : 0..MaxN, n_features : 1..MaxF,
            contamination : Rationals(0, MaxDen, {MaxDen}), train_only : BOOLEAN,
            offset : 1..MaxOffset, random_state : {None} \cup 0..MaxSeed,
            n_nan : 0..MaxSpecial, n_inf : 0..MaxSpecial] : TRUE}

Init ==
    /\ pc = "idle"
    /\ args = NoArgs
    /\ random_state = "np.random"
    /\ rs_state = 0
    /\ np_random \in 0..(RngMod - 1)
    /\ offset_ = 0
    /\ coef_ = 0
    /\ X_train = Empty /\ y_train = Empty /\ X_test = Empty /\ y_test = Empty
    /\ result = NoResult
    /\ draws = <<>>
    /\ calls = <<>>
    /\ saved = NoSaved

\* any arguments: negative counts, contamination by halves from -1 to MaxDen / 2, offset 0
AnyArgs ==
    {a \in [n_train : -1..MaxN, n_test : -1..MaxN, n_features : {MaxF},
            contamination : Rationals(-2, MaxDen, {2}), train_only : BOOLEAN,
            offset : 0..MaxOffset, random_state : {None, MaxSeed},
            n_nan : -1..MaxSpecial, n_inf : -1..MaxSpecial] : TRUE}

\* the calls a caller repeats to compare outcomes
PairArgs ==
    {a \in [n_train : 1..MaxN, n_test : {0, MaxN}, n_features : {MaxF},
            contamination : Rationals(MaxDen \div 2, MaxDen \div 2, {MaxDen}), train_only : BOOLEAN,
            offset : {MaxOffset}, random_state : {None} \cup 0..(MaxSeed + 1),
            n_nan : {0, MaxSpecial}, n_inf : {0}] : TRUE}

\* larger partitions and finer contaminations, one feature
WideArgs ==
    {a \in [n_train : 0..MaxWideN, n_test : 0..MaxWideN, n_features : {1},
            contamination : Rationals(0, MaxWideDen, 1..MaxWideDen), train_only : BOOLEAN,
            offset : {1}, random_state : {0},
            n_nan : {0}, n_inf : {0}] : a.contamination.num <= 2 * a.contamination.den}

Body == DeriveParams \/ SampleTrain \/ ReturnTrainOnly \/ SampleTest \/ ReturnAll \/ Finish

CallValid == pc = "idle" /\ \E a \in ValidArgs : Call(a)
CallAny == pc = "idle" /\ \E a \in AnyArgs : Call(a)
CallPair == pc = "idle" /\ \E a \in PairArgs : Call(a)
CallWide == pc = "idle" /\ \E a \in WideArgs : Call(a)

Next == CallValid \/ Body
NextAny == CallAny \/ Body
NextPair == CallPair \/ Body \/ Keep
NextWide == CallWide \/ Body

\* calls inside the documented domain
Spec == Init /\ [][Next]_vars
\* calls with any arguments
SpecAny == Init /\ [][NextAny]_vars
\* a caller that keeps one earlier outcome and calls again
SpecPair == Init /\ [][NextPair]_vars
\* larger partitions
SpecWide == Init /\ [][NextWide]_vars

-----------------------------------------------------------------------------
(* Properties *)

\* the call is past the training Sampler call, which returned
TrainDone == pc \in {"L159", "L169", "returned"}
\* the call is past the test Sampler call, which returned
TestDone == pc = "L169" \/ (pc = "returned" /\ ~args.train_only)

\* floor(p / q) for 0 <= p, 0 < q, by its defining inequalities
FloorQ(p, q) == CHOOSE k \in 0..p : k * q <= p /\ p < (k + 1) * q

\* floor(n * contamination) for 0 <= contamination, 0 <= n
Floor(n, c) == FloorQ(n * c.num, c.den)

\* the outlier and inlier counts of a partition of n points: the product truncated toward zero
OutCount(n, c) == IF n * c.num >= 0 THEN FloorQ(n * c.num, c.den) ELSE -FloorQ(-(n * c.num), c.den)
InCount(n, c) == n - OutCount(n, c)

Special == args.n_nan + args.n_inf

Labels(n) ==
    Full1(n - Floor(n, args.contamination), Real(0)) \o Full1(Floor(n, args.contamination), Real(1))
        \o Full1(args.n_nan, NaN) \o Full1(args.n_inf, Infty)

\* the feature rows at the NaN / Infinity labels are all-NaN / all-Infinity, the others numbers
RowsMatchLabels(X, y) ==
    /\ Len(X) = Len(y)
    /\ \A i \in 1..Len(y) :
          /\ Len(X[i]) = args.n_features
          /\ \A j \in 1..Len(X[i]) :
                IF y[i] \in {NaN, Infty} THEN X[i][j] = y[i] ELSE X[i][j][1] = "num"

C8_DocstringShapes ==
    /\ pc = "returned" =>
          /\ Len(X_train) = args.n_train /\ Len(y_train) = args.n_train
          /\ \A i \in 1..Len(X_train) : Len(X_train[i]) = args.n_features
    /\ (pc = "returned" /\ ~args.train_only) =>
          /\ Len(X_test) = args.n_test /\ Len(y_test) = args.n_test
          /\ \A i \in 1..Len(X_test) : Len(X_test[i]) = args.n_features

\* the call is past lines 149-150
Derived == pc \in {"L152", "L159", "L169", "returned"}

\* C5: offset_ and coef_ are each derived once, before any sampling, and the training and the
\* test Sampler call are given the same coef_, offset_, n_features, n_nan and n_inf and the
\* same random source, which the test call finds as the training call left it.
C5_SharedParameters ==
    /\ Derived =>
          /\ draws[1] = <<"randint", 1>> /\ draws[2] = <<"random_sample", 1>>
          /\ \A k \in 3..Len(draws) : draws[k][1] \in {"randn", "uniform"}
    /\ \A k \in 1..Len(calls) : calls[k].coef = coef_ /\ calls[k].offset = offset_
    /\ Len(calls) = 2 =>
          /\ calls[2].coef = calls[1].coef /\ calls[2].offset = calls[1].offset
          /\ calls[2].n_features = calls[1].n_features
          /\ calls[2].n_nan = calls[1].n_nan /\ calls[2].n_inf = calls[1].n_inf
          /\ calls[2].rng = calls[1].rng
          /\ calls[2].st_in = calls[1].st_out

C5_Witness ==
    /\ pc = "returned" /\ Len(calls) = 2
    /\ calls[1].st_out # calls[1].st_in
    /\ calls[2].st_out # calls[2].st_in
    /\ calls[1].rng = "RandomState"
    /\ offset_ > 0

\* the draws the claim lists for the call in progress
ExpectedDraws ==
    << <<"randint", 1>>, <<"random_sample", 1>>,
       <<"randn", InCount(args.n_train, args.contamination) * args.n_features>>,
       <<"uniform", OutCount(args.n_train, args.contamination) * args.n_features>> >>
    \o (IF args.train_only THEN <<>>
        ELSE << <<"randn", InCount(args.n_test, args.contamination) * args.n_features>>,
                <<"uniform", OutCount(args.n_test, args.contamination) * args.n_features>> >>)

\* the number of values the call in progress has drawn when it returns
ExpectedConsumed ==
    2 + args.n_train * args.n_features + (IF args.train_only THEN 0 ELSE args.n_test * args.n_features)

\* C9: one integer draw for offset_, one uniform draw for coef_, then for the training call
\* n_inliers*n_features Gaussian draws and n_outliers*n_features uniform draws, then, only when
\* train_only is false, the same for the test call; NaN/Infinity injection draws nothing and
\* with train_only nothing is drawn after the training call.
C9_DrawOrder ==
    /\ pc = "L152" => draws = SubSeq(ExpectedDraws, 1, 2)
    /\ pc = "L159" => draws = SubSeq(ExpectedDraws, 1, 4)
    /\ pc \in {"L169", "returned"} => draws = ExpectedDraws
    /\ \A k \in 1..Len(calls) :
          calls[k].st_out =
              Advance(calls[k].st_in, (calls[k].n_inliers + calls[k].n_outliers) * calls[k].n_features)
    /\ (pc = "returned" /\ args.random_state # None) =>
          rs_state = Advance(Seeded(args.random_state), ExpectedConsumed)

C9_Witness ==
    /\ pc = "returned" /\ ~args.train_only
    /\ args.n_nan > 0 /\ args.n_inf > 0
    /\ Len(draws) = 6
    /\ \A k \in 3..6 : draws[k][2] > 0

C9_WitnessTrainOnly ==
    /\ pc = "returned" /\ args.train_only /\ args.n_test > 0
    /\ Len(draws) = 4 /\ draws[3][2] > 0 /\ draws[4][2] > 0

\* the arguments other than contamination and offset are in their documented domains
OtherwiseValid ==
    /\ pc # "idle"
    /\ args.n_train >= 0 /\ args.n_test >= 0 /\ args.n_features >= 1
    /\ args.n_nan >= 0 /\ args.n_inf >= 0

\* contamination in [0.5, 1]
AtLeastHalf ==
    /\ 2 * args.contamination.num >= args.contamination.den
    /\ args.contamination.num <= args.contamination.den

\* contamination in [0, 1]
InUnitRange == 0 <= args.contamination.num /\ args.contamination.num <= args.contamination.den

\* every partition generated so far has all its rows
NoRowsDropped ==
    /\ TrainDone => Len(X_train) = args.n_train + Special /\ Len(y_train) = args.n_train + Special
    /\ TestDone => Len(X_test) = args.n_test + Special /\ Len(y_test) = args.n_test + Special

\* C6 as stated: a call with contamination in [0.5, 1], or with offset = 0, and otherwise valid
\* arguments never raises and drops no rows.
C6_NeverFaults ==
    (OtherwiseValid /\ InUnitRange /\ (AtLeastHalf \/ args.offset = 0)) =>
        (pc # "raised" /\ NoRowsDropped)

\* C6 amended: with contamination in [0.5, 1], offset >= 1 and otherwise valid arguments the
\* call never raises and drops no rows; with offset = 0 it raises at the randint of line 149,
\* before any sampling.
C6_Amended ==
    /\ (OtherwiseValid /\ AtLeastHalf /\ args.offset >= 1) => (pc # "raised" /\ NoRowsDropped)
    /\ (pc # "idle" /\ args.offset = 0) =>
          /\ pc \in {"L149", "raised"}
          /\ pc = "raised" => (result.site = "randint" /\ calls = <<>> /\ draws = <<>>)

C6_Witness ==
    /\ pc = "returned" /\ OtherwiseValid /\ ~args.train_only
    /\ args.contamination.num = args.contamination.den
    /\ args.n_train > 0 /\ args.n_test > 0 /\ Special > 1
    /\ calls[1].n_inliers = 0 /\ calls[2].n_inliers = 0

\* a row count of the call is negative: an argument, or a count derived from the contamination
NegativeRowCount ==
    /\ pc # "idle"
    /\ \/ args.n_train < 0 \/ args.n_test < 0 \/ args.n_nan < 0 \/ args.n_inf < 0
       \/ OutCount(args.n_train, args.contamination) < 0
       \/ InCount(args.n_train, args.contamination) < 0
       \/ OutCount(args.n_test, args.contamination) < 0
       \/ InCount(args.n_test, args.contamination) < 0

\* C7 as stated: a call with a negative row count ends in a fault and never returns an output
\* (whichever numpy call raises it).
C7_AlwaysFaults == NegativeRowCount => pc # "returned"

\* the training (test) Sampler call is given a negative count
NegativeTrain ==
    pc # "idle" /\ (OutCount(args.n_train, args.contamination) < 0
                    \/ InCount(args.n_train, args.contamination) < 0)
NegativeTest ==
    pc # "idle" /\ ~args.train_only
        /\ (OutCount(args.n_test, args.contamination) < 0
            \/ InCount(args.n_test, args.contamination) < 0)

\* C7 amended: a call whose training Sampler call, or whose test Sampler call when train_only
\* is false, is given a negative n_inliers or n_outliers never returns; when offset >= 1 the
\* ValueError comes from randn or uniform of that Sampler call.  A negative n_train or n_test
\* (the latter with train_only false) always gives such a count.  A negative n_nan or n_inf
\* raises nothing: the injection is skipped.
C7_Amended ==
    /\ (pc # "idle" /\ args.n_train < 0) => NegativeTrain
    /\ (pc # "idle" /\ ~args.train_only /\ args.n_test < 0) => NegativeTest
    /\ NegativeTrain => ~TrainDone
    /\ NegativeTest => ~TestDone
    /\ (pc = "raised" /\ args.offset >= 1) =>
          /\ result.site \in {"randn", "uniform"}
          /\ NegativeTrain \/ NegativeTest
          /\ calls[Len(calls)].n_inliers < 0 \/ calls[Len(calls)].n_outliers < 0
    /\ (TrainDone /\ args.n_nan <= 0 /\ args.n_inf <= 0) =>
          Len(X_train) = args.n_train /\ Len(y_train) = args.n_train

\* a count made negative by a contamination above 1 makes the test call raise
C7_Witness ==
    /\ pc = "raised" /\ result.site = "randn" /\ Len(calls) = 2
    /\ args.n_test > 0 /\ args.offset >= 1
    /\ args.contamination.num > args.contamination.den

\* a call with negative n_nan and n_inf returns
C7_WitnessSkipped ==
    /\ pc = "returned" /\ args.n_nan < 0 /\ args.n_inf < 0 /\ args.n_train > 0

\* the finished call and the kept one were given the same arguments, an integer seed among them
SameCall ==
    /\ pc \in {"returned", "raised"}
    /\ saved.set
    /\ saved.args = args
    /\ args.random_state # None

\* C3: two calls with the same seed and the same other arguments give identical outcomes,
\* whatever calls were made between them.
C3_Determinism == SameCall => result = saved.result

C3_Witness ==
    /\ SameCall /\ pc = "returned" /\ ~args.train_only
    /\ args.n_train > 1 /\ args.n_test > 1 /\ args.n_nan > 0
    /\ result.val[1] # result.val[2]

\* the finished call has train_only false, the kept one train_only true, and they agree on
\* everything else but n_test
SameButTrainOnly ==
    /\ pc = "returned"
    /\ saved.set
    /\ saved.result.tag = "tuple"
    /\ saved.args.train_only /\ ~args.train_only
    /\ args.random_state # None
    /\ [saved.args EXCEPT !.train_only = FALSE, !.n_test = args.n_test] = args

\* C4: train_only=True returns (X_train, y_train), train_only=False returns
\* (X_train, X_test, y_train, y_test), and for the same seed and other arguments the X_train
\* and y_train of the two are identical, whatever n_test is.
C4_TrainOnlyPrefix ==
    /\ pc = "returned" => Len(result.val) = (IF args.train_only THEN 2 ELSE 4)
    /\ pc = "returned" =>
          /\ result.val[1] = X_train
          /\ result.val[IF args.train_only THEN 2 ELSE 3] = y_train
    /\ SameButTrainOnly =>
          /\ result.val[1] = saved.result.val[1]
          /\ result.val[3] = saved.result.val[2]

C4_Witness ==
    /\ SameButTrainOnly
    /\ args.n_test # saved.args.n_test
    /\ args.n_test > args.n_train /\ args.n_train > 0 /\ args.n_nan > 0
    /\ result.val[2] # result.val[1]

\* the Sampler invocations of the call in progress, with the partition size each was made for
Splits ==
    {[n |-> IF k = 1 THEN args.n_train ELSE args.n_test,
      n_inliers |-> calls[k].n_inliers, n_outliers |-> calls[k].n_outliers] : k \in 1..Len(calls)}

\* contamination in (0, 0.5), and contamination >= 0.5
BelowHalf == 0 < args.contamination.num /\ 2 * args.contamination.num < args.contamination.den
HalfOrMore == 2 * args.contamination.num >= args.contamination.den

\* C10 as stated: a contamination in (0, 0.5) gives n_outliers <= n_inliers, and a contamination
\* >= 0.5 with n >= 1 gives n_outliers > n_inliers.
C10_MajorityInverted ==
    \A s \in Splits :
        /\ BelowHalf => s.n_outliers <= s.n_inliers
        /\ (HalfOrMore /\ s.n >= 1) => s.n_outliers > s.n_inliers

\* C10 amended: a contamination in (0, 0.5) gives n_outliers <= n_inliers; a contamination
\* >= 0.5 gives n_inliers <= n_outliers + 1 (the inliers lead by at most one point), and
\* n_outliers > n_inliers exactly when floor(n * contamination) > n / 2.
C10_Amended ==
    \A s \in Splits :
        /\ s.n_inliers + s.n_outliers = s.n
        /\ BelowHalf => s.n_outliers <= s.n_inliers
        /\ HalfOrMore => s.n_inliers <= s.n_outliers + 1
        /\ HalfOrMore => (s.n_outliers > s.n_inliers <=> 2 * Floor(s.n, args.contamination) > s.n)

\* a contamination of at least 0.5 that leaves the inliers in the majority
C10_Witness ==
    /\ pc = "returned"
    /\ HalfOrMore
    /\ \E s \in Splits : s.n >= 3 /\ s.n_outliers < s.n_inliers

\* a contamination below 0.5 that gives outliers
C10_WitnessBelow ==
    /\ pc = "returned" /\ BelowHalf
    /\ \E s \in Splits : s.n_outliers > 1 /\ s.n_outliers < s.n_inliers

=============================================================================
